---- MODULE Spec2Model ----
\* Model of src/generate_sample_photos.py: the size-targeting generator
\* (generate_image_with_target_size) and the batch loop (generate_sample_photos).
\*
\* The output directory is a function from paths to byte sizes.  Every img.save is
\* one step whose result (the encoded size, or an exception) is chosen by the
\* environment.  Sizes are small integers; the float comparisons of the source
\* (x/T < 0.1, x < T*0.9, x <= T*1.1, x/T < 0.15) are written in integers, which
\* agrees with IEEE double arithmetic on every value within the bounds below.
\* Targets and sizes are a few bytes instead of megabytes: every test of the source
\* compares a size with a multiple of the target, so each of its cases (below 90%,
\* exactly 90%, within 10%, exactly 110%, above 110%) has a value within the bounds.
\* The pixels painted and the PNG resize (new_width, new_height) only shape the
\* image handed to img.save, whose outcome the environment chooses.
EXTENDS Integers, Sequences, FiniteSets

\* ---------------------------------------------------------------- bounds
MaxPhotos == 2
MinTarget == 10
MaxTarget == 11
MinSize == 8
MaxSize == 13

\* ------------------------------------------------------- program constants
JpegShare == 70
PngShare == 20
WebpShare == 10
JpegBase == 2000
PngBase == 1500
TopQuality == 95
QualityFloor == 60
QualityStep == 5
PadWidth == 3
MinPaintSpan == 100

VARIABLES
    num_photos,      \* argument num_photos
    sizes,           \* sizes[i]: the target sizes, after sampling and rescaling
    formats,         \* the shuffled format list
    faults,          \* environment: "none" | "any" | "all" (directory not writable)
    encSizes,        \* environment: the byte sizes an encode can come out at
    dir,             \* the output directory: path -> size in bytes
    pc,              \* "loop" | "gen" | "done" | "crashed"
    i,               \* loop index of generate_sample_photos (0-based)
    total_generated,
    file_sizes,
    stdout,          \* one record per "Generating i/N: ..." line
    summary,         \* the statistics printed by the summary, in order
    exception,       \* the uncaught exception that ended the process, or "none"
    actual_size,
    target_size,
    format_type,
    output_path,
    gpc,             \* position inside generate_image_with_target_size
    quality,
    q,
    base_width,
    base_height,
    file_size,
    encodes,         \* number of img.save calls made by the current call
    exit_line        \* source line of the return that ended the last call; 226 = except

inputs == <<num_photos, sizes, formats, faults, encSizes>>
request == <<target_size, format_type, output_path>>
locals == <<quality, q, base_width, base_height, file_size>>
vars == <<num_photos, sizes, formats, faults, encSizes, dir, pc, i, total_generated,
          file_sizes, stdout, summary, exception, actual_size, target_size,
          format_type, output_path, gpc, quality, q, base_width, base_height,
          file_size, encodes, exit_line>>

\* ---------------------------------------------------------------- helpers
Abs(x) == IF x < 0 THEN -x ELSE x

Max(a, b) == IF a > b THEN a ELSE b

Min(a, b) == IF a < b THEN a ELSE b

RECURSIVE SqrtSearch(_, _, _)
SqrtSearch(n, lo, hi) ==
    IF lo >= hi THEN lo
    ELSE LET mid == (lo + hi + 1) \div 2
         IN IF mid * mid <= n THEN SqrtSearch(n, mid, hi) ELSE SqrtSearch(n, lo, mid - 1)

\* floor(sqrt(n))
ISqrt(n) == SqrtSearch(n, 0, Min(n, 46340))

\* int(dim * math.sqrt(target / actual))
Scale(dim, target, actual) == ISqrt((dim * dim * target) \div actual)

\* abs(file_size - target) / target < 0.1
Within10(fs, target) == 10 * Abs(fs - target) < target

\* file_size < target * 0.9
TooSmall(fs, target) == 10 * fs < 9 * target

\* file_size <= target * 1.1
FineFits(fs, target) == 10 * fs <= 11 * target

\* (mutant) the WEBP check made with the JPEG tolerance
Within15AsTenth(fs, target) == 10 * Abs(fs - target) < target

\* abs(file_size - target) / target < 0.15
Within15(fs, target) == 100 * Abs(fs - target) < 15 * target

\* (mutant) the sweep starts over at the top level
NextQualityRestart(level) == TopQuality

\* range(95, 60, -5): the level after `level`, or 0 when the range is exhausted
NextQuality(level) == IF level - QualityStep > QualityFloor THEN level - QualityStep ELSE 0

\* (mutant) the fine search runs one level further
FineStopWide(level) == Max(QualityFloor, level - QualityStep - 2)

\* range(quality - 1, max(60, quality - 6), -1): the exclusive stop
FineStop(level) == Max(QualityFloor, level - QualityStep - 1)

\* ------------------------------------------------------------- file names
FormatNames == {"JPEG", "PNG", "WEBP"}

ExtMap(fmt) == IF fmt = "JPEG" THEN "jpg" ELSE IF fmt = "PNG" THEN "png" ELSE "webp"

RECURSIVE Digits(_)
Digits(n) == IF n < 10 THEN <<n>> ELSE Append(Digits(n \div 10), n % 10)

RECURSIVE Pad(_, _)
Pad(ds, w) == IF Len(ds) >= w THEN ds ELSE Pad(<<0>> \o ds, w)

\* f"sample_photo_{idx+1:03d}.{ext}" joined to the output directory
Filename(idx, ext) == [stem |-> "sample_photo_", num |-> Pad(Digits(idx + 1), PadWidth), ext |-> <<ext>>]

\* output_path + '.tmp'
TempPath(path) == [path EXCEPT !.ext = Append(@, "tmp")]

NoPath == [stem |-> "", num |-> <<>>, ext |-> <<>>]

\* ------------------------------------------------------------- directory
EmptyDir == [p \in {} |-> 0]

Exists(d, path) == path \in DOMAIN d

GetSize(d, path) == d[path]

WriteFile(d, path, size) == [p \in DOMAIN d \cup {path} |-> IF p = path THEN size ELSE d[p]]

Remove(d, path) == [p \in DOMAIN d \ {path} |-> d[p]]

\* (mutant) the rename is lost: the temp file stays where it is
RenameKeepsTemp(d, src, dst) == d

Rename(d, src, dst) == [p \in (DOMAIN d \ {src}) \cup {dst} |-> IF p = dst THEN d[src] ELSE d[p]]

\* What one img.save can do: write a file of some size, or raise (leaving, when
\* `partial`, a truncated file behind).
SaveOutcomes ==
    (IF faults = "all" THEN {} ELSE {[ok |-> TRUE, size |-> s, partial |-> FALSE] : s \in encSizes})
    \cup (IF faults = "none" THEN {}
          ELSE {[ok |-> FALSE, size |-> 0, partial |-> b] : b \in (IF faults = "any" THEN BOOLEAN ELSE {FALSE})})

FailedSave(d, path, partial) == IF partial THEN WriteFile(d, path, 0) ELSE d

\* ------------------------------------------------------------- the shuffle
\* (mutant) the PNG and WEBP shares swapped
FormatListSwapped ==
    [k \in 1..(JpegShare + PngShare + WebpShare) |->
        IF k <= JpegShare THEN "JPEG" ELSE IF k <= JpegShare + WebpShare THEN "PNG" ELSE "WEBP"]

\* ['JPEG'] * 70 + ['PNG'] * 20 + ['WEBP'] * 10
FormatList ==
    [k \in 1..(JpegShare + PngShare + WebpShare) |->
        IF k <= JpegShare THEN "JPEG" ELSE IF k <= JpegShare + PngShare THEN "PNG" ELSE "WEBP"]

\* s without its first x (s itself when it holds none)
RemoveFirst(s, x) ==
    IF \A k \in 1..Len(s) : s[k] # x THEN s
    ELSE LET j == CHOOSE k \in 1..Len(s) : s[k] = x /\ \A m \in 1..(k - 1) : s[m] # x
         IN [k \in 1..(Len(s) - 1) |-> IF k < j THEN s[k] ELSE s[k + 1]]

RECURSIVE RemoveEach(_, _)
RemoveEach(s, p) == IF p = <<>> THEN s ELSE RemoveEach(RemoveFirst(s, Head(p)), Tail(p))

Reverse(s) == [k \in 1..Len(s) |-> s[Len(s) + 1 - k]]

\* The permutation of FormatList that starts with p.
PrefixPerm(p) == p \o RemoveEach(FormatList, p)

\* Outcomes of random.shuffle(formats) the model draws from: every arrangement of
\* the first k places, each followed by the rest of the list, forwards or backwards.
ShuffleOutcomes(k) ==
    LET fwd == {PrefixPerm(p) : p \in [1..k -> FormatNames]}
    IN fwd \cup {p \o Reverse(RemoveEach(FormatList, p)) : p \in [1..k -> FormatNames]}

Sizes == MinSize..MaxSize

Targets == MinTarget..MaxTarget

\* ----------------------------------------------------------------- Init
\* State at line 206, before the first iteration.  A run is either a small batch
\* with an unconstrained encoder (a single photo), a small batch with an encoder
\* of one fixed size and saves that may fail, or a batch of the full format list
\* (or one more) with an exact encoder on a directory that is writable or not.
InitInputs ==
    \/ /\ num_photos = 1
       /\ faults = "any"
       /\ encSizes = Sizes
       /\ sizes \in [1..1 -> Targets]
       /\ formats \in {PrefixPerm(p) : p \in [1..1 -> FormatNames]}
    \/ /\ num_photos \in 2..MaxPhotos
       /\ faults = "any"
       /\ encSizes \in {{s} : s \in Sizes}
       /\ \E t \in Targets : sizes = [k \in 1..num_photos |-> t]
       /\ formats \in {PrefixPerm(p) : p \in [1..num_photos -> FormatNames]}
    \/ /\ num_photos \in {Len(FormatList), Len(FormatList) + 1}
       /\ faults \in {"none", "all"}
       /\ \E t \in Targets : /\ sizes = [k \in 1..num_photos |-> t]
                             /\ encSizes = {t}
       /\ formats \in ShuffleOutcomes(MaxPhotos)

Init ==
    /\ InitInputs
    /\ dir = EmptyDir
    /\ pc = "loop"
    /\ i = 0
    /\ total_generated = 0
    /\ file_sizes = <<>>
    /\ stdout = <<>>
    /\ summary = <<>>
    /\ exception = "none"
    /\ actual_size = 0
    /\ target_size = 0
    /\ format_type = "none"
    /\ output_path = NoPath
    /\ gpc = "idle"
    /\ quality = 0
    /\ q = 0
    /\ base_width = 0
    /\ base_height = 0
    /\ file_size = 0
    /\ encodes = 0
    /\ exit_line = 0

\* ------------------------------------------------- ends of one generator call
\* Lines 220-225: the call returned `size` through the return at `line`.
Returned(size, d, line) ==
    /\ dir' = d
    /\ actual_size' = size
    /\ file_sizes' = Append(file_sizes, size)
    /\ total_generated' = total_generated + size
    /\ stdout' = [stdout EXCEPT ![Len(stdout)].res = "OK", ![Len(stdout)].size = size]
    /\ exit_line' = line
    /\ gpc' = "idle"
    /\ i' = i + 1
    /\ pc' = "loop"
    /\ UNCHANGED <<inputs, request, summary, exception>>

\* Lines 226-229: the call raised, leaving the directory as `d`.
Raised(d) ==
    /\ dir' = IF Exists(d, output_path) THEN Remove(d, output_path) ELSE d
    /\ stdout' = [stdout EXCEPT ![Len(stdout)].res = "ERROR"]
    /\ exit_line' = 226
    /\ gpc' = "idle"
    /\ i' = i + 1
    /\ pc' = "loop"
    /\ UNCHANGED <<inputs, request, summary, exception, actual_size, file_sizes, total_generated>>

\* The call goes on at position `g`.
GoOn(d, g) ==
    /\ dir' = d
    /\ gpc' = g
    /\ UNCHANGED <<inputs, request, summary, exception, actual_size, file_sizes,
                   total_generated, stdout, exit_line, i, pc>>

\* The `for quality in range(95, 60, -5)` loop moves on (or ends: final attempt).
AdvanceSweep(d) ==
    IF NextQuality(quality) = 0
    THEN GoOn(d, "jpeg_final") /\ quality' = quality
    ELSE GoOn(d, "jpeg_sweep") /\ quality' = NextQuality(quality)

\* --------------------------------------------------------------- actions
\* Lines 206-220: one loop iteration up to the call of the generator.
BuildRequest ==
    /\ pc = "loop"
    /\ i < num_photos
    /\ IF i + 1 > Len(formats)
       THEN \* formats[i] raises IndexError outside the try
            /\ pc' = "crashed"
            /\ exception' = "IndexError"
            /\ UNCHANGED <<inputs, request, locals, dir, i, total_generated, file_sizes,
                           stdout, summary, actual_size, gpc, encodes, exit_line>>
       ELSE LET fmt == formats[i + 1]
                path == Filename(i, ExtMap(fmt))
            IN /\ target_size' = sizes[i + 1]
               /\ format_type' = fmt
               /\ output_path' = path
               /\ stdout' = Append(stdout, [idx |-> i + 1, filename |-> path,
                                            target |-> sizes[i + 1], format |-> fmt,
                                            res |-> "", size |-> 0])
               /\ pc' = "gen"
               /\ gpc' = IF fmt = "JPEG" THEN "jpeg_sweep"
                         ELSE IF fmt = "PNG" THEN "png_first" ELSE "webp_sweep"
               /\ base_width' = IF fmt = "PNG" THEN PngBase ELSE JpegBase
               /\ base_height' = IF fmt = "PNG" THEN PngBase ELSE JpegBase
               /\ quality' = IF fmt = "PNG" THEN 0 ELSE TopQuality
               /\ q' = 0
               /\ file_size' = 0
               /\ encodes' = 0
               /\ exit_line' = 0
               /\ UNCHANGED <<inputs, dir, i, total_generated, file_sizes, summary,
                              exception, actual_size>>

\* Lines 34-72 and 75-77: one iteration of the JPEG quality sweep.
JpegSweepEncode ==
    /\ pc = "gen"
    /\ gpc = "jpeg_sweep"
    /\ IF base_width < MinPaintSpan \/ base_height < MinPaintSpan
       THEN \* random.randint(0, base_width - 100) raises ValueError
            Raised(dir) /\ UNCHANGED <<locals, encodes>>
       ELSE \E o \in SaveOutcomes :
            LET tmp == TempPath(output_path)
                d1 == WriteFile(dir, tmp, o.size)
            IN /\ encodes' = encodes + 1
               /\ IF ~o.ok
                  THEN Raised(FailedSave(dir, tmp, o.partial)) /\ UNCHANGED locals
                  ELSE /\ file_size' = o.size
                       /\ IF Within10(o.size, target_size)
                          THEN /\ Returned(o.size, Rename(d1, tmp, output_path), 65)
                               /\ UNCHANGED <<quality, q, base_width, base_height>>
                          ELSE IF TooSmall(o.size, target_size)
                          THEN /\ base_width' = Scale(base_width, target_size, o.size)
                               /\ base_height' = Scale(base_height, target_size, o.size)
                               /\ q' = q
                               /\ AdvanceSweep(d1)
                          ELSE IF o.size > target_size
                          THEN /\ GoOn(d1, "jpeg_fine")
                               /\ q' = quality - 1
                               /\ UNCHANGED <<quality, base_width, base_height>>
                          ELSE /\ AdvanceSweep(d1)
                               /\ UNCHANGED <<q, base_width, base_height>>

\* Lines 77-86: one iteration of the fine-grained quality search.
JpegFineEncode ==
    /\ pc = "gen"
    /\ gpc = "jpeg_fine"
    /\ \E o \in SaveOutcomes :
       LET tmp == TempPath(output_path)
           d1 == WriteFile(dir, tmp, o.size)
       IN /\ encodes' = encodes + 1
          /\ IF ~o.ok
             THEN Raised(FailedSave(dir, tmp, o.partial)) /\ UNCHANGED locals
             ELSE /\ file_size' = o.size
                  /\ IF FineFits(o.size, target_size)
                     THEN /\ Returned(o.size, Rename(d1, tmp, output_path), 82)
                          /\ UNCHANGED <<quality, q, base_width, base_height>>
                     ELSE IF q - 1 > FineStop(quality)
                     THEN /\ GoOn(d1, "jpeg_fine")
                          /\ q' = q - 1
                          /\ UNCHANGED <<quality, base_width, base_height>>
                     ELSE /\ base_width' = Scale(base_width, target_size, o.size)
                          /\ base_height' = Scale(base_height, target_size, o.size)
                          /\ q' = q
                          /\ AdvanceSweep(d1)

\* Lines 88-106: the final attempt, saved straight to output_path at quality 85.
JpegFinalEncode ==
    /\ pc = "gen"
    /\ gpc = "jpeg_final"
    /\ \E o \in SaveOutcomes :
       LET d1 == WriteFile(dir, output_path, o.size)
       IN /\ encodes' = encodes + 1
          /\ UNCHANGED locals
          /\ IF ~o.ok
             THEN Raised(FailedSave(dir, output_path, o.partial))
             ELSE Returned(GetSize(d1, output_path), d1, 106)

\* Lines 110-126 (and 133 when no adjustment is needed).
PngFirstEncode ==
    /\ pc = "gen"
    /\ gpc = "png_first"
    /\ \E o \in SaveOutcomes :
       LET d1 == WriteFile(dir, output_path, o.size)
       IN /\ encodes' = encodes + 1
          /\ UNCHANGED <<quality, q, base_width, base_height>>
          /\ IF ~o.ok
             THEN Raised(FailedSave(dir, output_path, o.partial)) /\ file_size' = file_size
             ELSE /\ file_size' = o.size
                  /\ IF o.size < target_size
                     THEN GoOn(d1, "png_second")
                     ELSE Returned(GetSize(d1, output_path), d1, 133)

\* Lines 127-133: the resized image is saved once more.
PngSecondEncode ==
    /\ pc = "gen"
    /\ gpc = "png_second"
    /\ \E o \in SaveOutcomes :
       LET d1 == WriteFile(dir, output_path, o.size)
       IN /\ encodes' = encodes + 1
          /\ UNCHANGED locals
          /\ IF ~o.ok
             THEN Raised(FailedSave(dir, output_path, o.partial))
             ELSE Returned(GetSize(d1, output_path), d1, 133)

\* Lines 158-164: one iteration of the WEBP quality sweep.
WebpEncode ==
    /\ pc = "gen"
    /\ gpc = "webp_sweep"
    /\ \E o \in SaveOutcomes :
       LET d1 == WriteFile(dir, output_path, o.size)
       IN /\ encodes' = encodes + 1
          /\ UNCHANGED <<q, base_width, base_height>>
          /\ IF ~o.ok
             THEN Raised(FailedSave(dir, output_path, o.partial))
                  /\ UNCHANGED <<quality, file_size>>
             ELSE /\ file_size' = o.size
                  /\ IF Within15(o.size, target_size)
                     THEN Returned(o.size, d1, 162) /\ quality' = quality
                     ELSE IF NextQuality(quality) = 0
                     THEN Returned(GetSize(d1, output_path), d1, 164) /\ quality' = quality
                     ELSE GoOn(d1, "webp_sweep") /\ quality' = NextQuality(quality)

\* Lines 231-240: the summary.  np.mean([]) is nan (a warning), min([]) raises.
Summary ==
    /\ pc = "loop"
    /\ i = num_photos
    /\ IF file_sizes = <<>>
       THEN /\ summary' = <<"count", "total", "mean">>
            /\ pc' = "crashed"
            /\ exception' = "ValueError"
       ELSE /\ summary' = <<"count", "total", "mean", "min", "max", "std">>
            /\ pc' = "done"
            /\ exception' = exception
    /\ UNCHANGED <<inputs, request, locals, dir, i, total_generated, file_sizes, stdout,
                   actual_size, gpc, encodes, exit_line>>

Next ==
    \/ BuildRequest
    \/ JpegSweepEncode
    \/ JpegFineEncode
    \/ JpegFinalEncode
    \/ PngFirstEncode
    \/ PngSecondEncode
    \/ WebpEncode
    \/ Summary

Spec == Init /\ [][Next]_vars

TypeOK ==
    /\ pc \in {"loop", "gen", "done", "crashed"}
    /\ i \in 0..num_photos
    /\ Len(file_sizes) <= i
    /\ Len(stdout) \in {i, i + 1}
    /\ (pc = "gen") = (gpc # "idle")

\* ------------------------------------------------------------------ claims
Terminated == pc \in {"done", "crashed"}

ReturnLines == {65, 82, 106, 133, 162, 164}

OutputExts == {<<"jpg">>, <<"png">>, <<"webp">>}

Lines(res) == {k \in 1..Len(stdout) : stdout[k].res = res}

\* C1: when every one of the N >= 1 requests fails, each failure is caught and
\* logged, the summary is printed completely (reporting zero photos) and the run
\* ends normally: no exception escapes generate_sample_photos.
C1_AllFailedStillSummarised ==
    (Terminated /\ num_photos >= 1 /\ i = num_photos /\ Lines("ERROR") = 1..num_photos)
        => /\ pc = "done"
           /\ exception = "none"
           /\ Len(summary) = 6
           /\ Len(file_sizes) = 0

\* C2: for every N >= 1, if every generation succeeds, exactly N requests are built
\* and attempted, in index order 1..N, and the run ends with exactly N output files
\* sample_photo_001 .. sample_photo_N with an extension from {jpg, png, webp}.
C2_AllSucceedAllBuilt ==
    (Terminated /\ Lines("ERROR") = {})
        => /\ Len(stdout) = num_photos
           /\ \A k \in 1..Len(stdout) :
                 /\ stdout[k].idx = k
                 /\ stdout[k].filename.stem = "sample_photo_"
                 /\ stdout[k].filename.num = <<k \div 100, (k \div 10) % 10, k % 10>>
                 /\ stdout[k].filename.ext \in OutputExts
           /\ {p \in DOMAIN dir : p.ext \in OutputExts}
                 = {stdout[k].filename : k \in 1..num_photos}
           /\ Cardinality({p \in DOMAIN dir : p.ext \in OutputExts}) = num_photos

\* C3: once all requests are processed, the directory (empty at the start) holds
\* only sample_photo_NNN.jpg / .png / .webp files: no '<output_path>.tmp' remains.
C3_NoTempFileRemains ==
    (i = num_photos /\ pc # "gen")
        => \A p \in DOMAIN dir :
              /\ p.stem = "sample_photo_"
              /\ Len(p.num) = 3
              /\ p.ext \in OutputExts

\* C4: a JPEG size returned from inside the search (sweep acceptance, line 65, or
\* fine-grained acceptance, line 82) is within 10% relative error of the target.
C4_SearchResultWithin10 ==
    exit_line \in {65, 82} => 10 * Abs(actual_size - target_size) < target_size

\* C5: WEBP tries the levels 95, 90, ..., 65 in this order, returns at the first
\* level whose size is within 15% of the target, with that size, and otherwise
\* returns the size of the last encode (quality 65).
C5_WebpSweep ==
    /\ [][(pc = "loop" /\ gpc' = "webp_sweep") => quality' = 95]_vars
    /\ [][(pc = "gen" /\ gpc = "webp_sweep" /\ exit_line' # 226) =>
            LET S == dir'[output_path]
            IN IF 100 * Abs(S - target_size) < 15 * target_size
               THEN pc' = "loop" /\ exit_line' = 162 /\ actual_size' = S
               ELSE IF quality > 65
               THEN pc' = "gen" /\ gpc' = "webp_sweep" /\ quality' = quality - 5
               ELSE pc' = "loop" /\ exit_line' = 164 /\ actual_size' = S]_vars
    /\ [](exit_line = 162 => 100 * Abs(actual_size - target_size) < 15 * target_size)
    /\ [](exit_line = 164 => quality = 65)

C5_Witness ==
    /\ format_type = "WEBP"
    /\ exit_line = 164
    /\ encodes = 7
    /\ ~(100 * Abs(actual_size - target_size) < 15 * target_size)

\* C6: an exception while generating request k is caught by the batch loop, no
\* file is left at its output_path, it adds nothing to the collected sizes, and
\* every request 1..N is attempted exactly once whatever failed before it.
C6_FailuresIsolated ==
    Terminated
        => /\ \A k \in 1..num_photos :
                 Cardinality({m \in 1..Len(stdout) : stdout[m].idx = k}) = 1
           /\ \A m \in Lines("ERROR") : stdout[m].filename \notin DOMAIN dir
           /\ Len(file_sizes) = Cardinality(Lines("OK"))

\* C6 restricted to batches no longer than the format list (holds).
C6_WithinFormatList ==
    num_photos <= Len(FormatList) => C6_FailuresIsolated

\* C7: whenever generate_image_with_target_size returns S, a file exists at
\* output_path and S is its size; for the JPEG search the measured temp file is
\* the one renamed there.
C7_ReturnedSizeIsStoredSize ==
    exit_line \in ReturnLines
        => /\ output_path \in DOMAIN dir
           /\ dir[output_path] = actual_size
           /\ exit_line \in {65, 82}
                 => /\ actual_size = file_size
                    /\ TempPath(output_path) \notin DOMAIN dir

C7_Witness ==
    /\ exit_line = 82
    /\ output_path \in DOMAIN dir
    /\ dir[output_path] = actual_size
    /\ encodes >= 3

\* C8: in a batch of 100 the requests are 70 JPEG, 20 PNG and 10 WEBP for every
\* outcome of the shuffle, and each file extension matches its format.
C8_FormatCounts ==
    (num_photos = 100 /\ i = num_photos)
        => /\ Len(stdout) = 100
           /\ Cardinality({k \in 1..Len(stdout) : stdout[k].format = "JPEG"}) = 70
           /\ Cardinality({k \in 1..Len(stdout) : stdout[k].format = "PNG"}) = 20
           /\ Cardinality({k \in 1..Len(stdout) : stdout[k].format = "WEBP"}) = 10
           /\ \A k \in 1..Len(stdout) :
                 /\ stdout[k].format = formats[k]
                 /\ stdout[k].format = "JPEG" => stdout[k].filename.ext = <<"jpg">>
                 /\ stdout[k].format = "PNG" => stdout[k].filename.ext = <<"png">>
                 /\ stdout[k].format = "WEBP" => stdout[k].filename.ext = <<"webp">>

C8_Witness ==
    /\ num_photos = 100
    /\ pc = "done"
    /\ Len(stdout) = 100
    /\ stdout[1].format = "WEBP"
    /\ stdout[100].format = "JPEG"

\* A sweep encode came out below 90% of the target (and did not raise).
TooSmallStep ==
    /\ pc = "gen"
    /\ gpc = "jpeg_sweep"
    /\ pc' = "gen"
    /\ 10 * file_size' < 9 * target_size

\* base_width' = floor(base_width * sqrt(target / actual)), likewise the height
DimsRescaled ==
    /\ base_width' * base_width' * file_size' <= base_width * base_width * target_size
    /\ (base_width' + 1) * (base_width' + 1) * file_size' > base_width * base_width * target_size
    /\ base_height' = base_width'

\* C9 (as stated): after an encode below 90% of the target the dimensions are
\* scaled by sqrt(target/actual) and the sweep restarts at quality 95.
C9_SweepRestarts ==
    [][TooSmallStep => (DimsRescaled /\ gpc' = "jpeg_sweep" /\ quality' = 95)]_vars

\* C9 (amended): after an encode below 90% of the target the dimensions are scaled
\* by sqrt(target/actual) and the sweep goes on at the next lower level (quality
\* minus 5); after level 65 the final quality-85 encode follows.
C9_SweepContinues ==
    [][TooSmallStep =>
         /\ DimsRescaled
         /\ IF quality > 65
            THEN gpc' = "jpeg_sweep" /\ quality' = quality - 5
            ELSE gpc' = "jpeg_final"]_vars

C9_Witness ==
    /\ pc = "gen"
    /\ gpc = "jpeg_sweep"
    /\ quality = 90
    /\ encodes = 1
    /\ 10 * file_size < 9 * target_size
    /\ base_width > 2000

\* C10: every call is a bounded search: each step of a call is one encode, PNG
\* makes at most 2 (the second only after a first size below target), WEBP at most
\* 7, JPEG at most 42: 7 sweep levels, at most 5 fine encodes after a level (4
\* after level 65), and one final encode.
C10_BoundedSearch ==
    /\ [][pc = "gen" => (encodes' = encodes + 1 \/ pc' = "loop")]_vars
    /\ [](format_type = "PNG" => encodes <= 2)
    /\ [](gpc = "png_second" => (encodes = 1 /\ file_size < target_size))
    /\ [](format_type = "WEBP" => encodes <= 7)
    /\ [](format_type = "JPEG" => encodes <= 42)
    /\ [](gpc = "jpeg_sweep" => encodes <= 6 * ((95 - quality) \div 5))
    /\ [](gpc = "jpeg_fine" =>
             /\ q < quality
             /\ q >= quality - 5
             /\ q > 60
             /\ encodes <= 6 * ((95 - quality) \div 5) + (quality - q))
    /\ [](gpc = "jpeg_final" => encodes <= 41)

C10_Witness ==
    /\ format_type = "JPEG"
    /\ exit_line = 106
    /\ encodes = 42

====
